---- MODULE Spec2Model ----
(***************************************************************************)
(* Model of liljegren_c.c (WBGT, Liljegren): solarposition,                *)
(* calc_solar_parameters, calc_wbgt, the wind estimate (stab_srdt,         *)
(* est_wind_speed) and the two damped fixed-point solvers Tglobe and Twb.  *)
(*                                                                         *)
(* Numbers.  The program computes in float/double.  The model keeps every  *)
(* quantity as an integer on a fixed grid:                                 *)
(*   temperatures   0.001 K (and 0.001 degC)                               *)
(*   wind speed     5e-9 m/s  (so that 0.13 and (float)0.13 differ)        *)
(*   cza            1e-6                                                   *)
(*   normsolar      1e-8      (so that 0.85 and (float)0.85 differ)        *)
(*   fdir           1e-4                                                   *)
(*   irradiance     0.01 W/m2                                              *)
(*   day.fraction   seconds;  days_1900 in hours                           *)
(*   soldist        0.001 AU                                               *)
(* and three reserved values stand for IEEE NaN, +infinity and for a       *)
(* location that has not been written.                                     *)
(*                                                                         *)
(* What is kept exact: every comparison, branch, early return, loop        *)
(* counter, clamp, table lookup, assignment and integer date computation.  *)
(* What is abstracted: the ephemeris trigonometry of solarposition (its    *)
(* altitude and distance results are drawn from a grid) and the heat       *)
(* balance evaluated in each solver pass (the new estimate as a function   *)
(* of the previous one is drawn from a family of responses).               *)
(***************************************************************************)
EXTENDS Integers, Sequences, FiniteSets, TLC

VARIABLES
  entry,        \* the function the caller invoked
  pc,           \* position of the running call
  args,         \* arguments of calc_wbgt
  spa,          \* arguments of the running solarposition call
  spSteps,      \* solarposition: the checks and computations executed so far
  spRet,        \* solarposition: return value (UNSET while it has not returned)
  spOut,        \* solarposition: output locations (UNSET until written)
  daynumber, delta_days,     \* solarposition locals
  spaRet,       \* result of spa_calculate (UNSET when not called)
  elev, soldist,             \* calc_solar_parameters locals
  cspRead,      \* outputs of the solar-position step read by calc_solar_parameters
  cspRet,       \* return value of calc_solar_parameters
  min_speed, dday,           \* calc_wbgt locals
  solar, cza, fdir,          \* calc_wbgt locals written through pointers
  toasolar, normsolar,       \* calc_solar_parameters locals
  daytime, stability_class,  \* calc_wbgt locals
  called,       \* functions calc_wbgt has invoked so far, in order
  rad,          \* Twb: radiative heating switch of the running or next call
  resp,         \* response of the heat balance for this solve
  iter, converged, T_prev, T_new,   \* solver locals
  passes,       \* number of passes through the loop body of the running solver
  hits,         \* number of passes whose convergence test succeeded
  est_speed, solar_adj, Tg, Tnwb, Tpsy, Twbg,   \* outputs of calc_wbgt
  ret,          \* return value of calc_wbgt
  stabIn,       \* arguments stab_srdt received (UNSET when not called)
  sv,           \* parameters speed, solar, fdir, cza of the running solver
  heat,         \* Twb local: radiative heating over the convective coefficient
  dnArgs,       \* arguments of a direct daynum call
  dnRet,        \* value daynum returned (UNSET while it has not)
  other,        \* two concurrent calls: the state of the call not running
  turn,         \* two concurrent calls: which of the two is running
  switches      \* two concurrent calls: context switches so far

vars == << entry, pc, args, spa, spSteps, spRet, spOut, daynumber, delta_days,
           spaRet, elev, soldist, cspRead, cspRet, min_speed, dday, solar, cza,
           fdir, toasolar, normsolar, daytime, stability_class, called, rad,
           resp, iter, converged, T_prev, T_new, passes, hits, est_speed,
           solar_adj, Tg, Tnwb, Tpsy, Twbg, ret, stabIn, sv, heat,
           dnArgs, dnRet,
           other, turn, switches >>

-----------------------------------------------------------------------------
(* Floating point values outside the grid *)

NaN == -2000000001
PInf == 2000000000
UNSET == -2000000002

IsFinite(x) == x # NaN /\ x # PInf /\ x # UNSET

\* C comparison operators on floats: false when an operand is NaN
FLt(a, b) == a # NaN /\ b # NaN /\ a < b
FGt(a, b) == a # NaN /\ b # NaN /\ a > b
FGe(a, b) == a # NaN /\ b # NaN /\ a >= b

\* #define max(a,b) ((a) > (b) ? (a) : (b))
FMax(a, b) == IF FGt(a, b) THEN a ELSE b

\* #define min(a,b) ((a) < (b) ? (a) : (b))
FMin(a, b) == IF FLt(a, b) THEN a ELSE b

\* C integer division truncates toward zero
CDiv(a, b) == IF a >= 0 THEN a \div b ELSE -((-a) \div b)

Abs(x) == IF x < 0 THEN -x ELSE x

\* rounding division used for grid arithmetic
RoundDiv(a, b) == (2 * a + b) \div (2 * b)

-----------------------------------------------------------------------------
(* Program constants, on the grids *)

SpeedScale == 2 * 100000000      \* grid points per m/s
CzaScale == 1000 * 1000          \* grid points per unit of cza
NormScale == 10000 * 10000       \* grid points per unit of normsolar
FdirScale == 100 * 100           \* grid points per unit of fdir

SOLAR_CONST == 1367
CZA_MIN == 8730
NORMSOLAR_MAX == 85000000
REF_HEIGHT == 2
MIN_SPEED == 26000000
CONVERGENCE == 20
MAX_ITER == 50
SENTINEL == -9999000
KELVIN == 273150
FDIR_MAX == 9000

\* (float)x for the double constants the program stores into float variables:
\* 0.13 -> 0.12999999523, 0.85 -> 0.85000002384; other grid values are floats
MIN_SPEED_F == MIN_SPEED - 1
NORMSOLAR_MAX_F == NORMSOLAR_MAX + 2

-----------------------------------------------------------------------------
(* Elementary functions on the grids *)

\* exp(-k) for whole k, in 1e-6
ExpWhole(k) ==
  IF k > 13 THEN 0
  ELSE << 1000000, 367879, 135335, 49787, 18316, 6738, 2479, 912, 335, 123,
          45, 17, 6, 2 >>[k + 1]

\* exp(y / 1000) in 1e-6 for -1000 <= y <= 1000, by its power series
ExpSeries(y) ==
  LET t1 == 1000 * y
      t2 == (t1 * y) \div 2000
      t3 == (t2 * y) \div 3000
      t4 == (t3 * y) \div 4000
      t5 == (t4 * y) \div 5000
      t6 == (t5 * y) \div 6000
  IN  1000000 + t1 + t2 + t3 + t4 + t5 + t6

\* exp(x / 1000) in 1e-6, x <= 1000
ExpMicro(x) ==
  IF x >= 0 THEN ExpSeries(x)
  ELSE LET k == (-x) \div 1000
           f == (-x) % 1000
       IN  (ExpWhole(k) * (ExpSeries(-f) \div 1000)) \div 1000

\* cos((90 - elev) * DEG_RAD) in 1e-6, elev in 0.01 degree
CosZenith(e) ==
  CASE e = NaN -> NaN
    [] e = -9000 -> -1000000
    [] e = -50 -> -8727
    [] e = 50 -> 8727
    [] e = 60 -> 10472
    [] e = 3000 -> 500000
    [] e = 5313 -> 799999
    [] e = 7844 -> 979715
    [] e = 9000 -> 1000000

\* the altitudes (0.01 degree) at which CosZenith is tabulated
Altitudes == { -9000, -50, 50, 60, 3000, 5313, 7844, 9000 }

\* log(REF_HEIGHT / zspeed) in 1e-3, zspeed in whole metres
LogRefOver(z) ==
  CASE z < 0 -> NaN
    [] z = 0 -> PInf
    [] z = 1 -> 693
    [] z = 2 -> 0
    [] z = 10 -> -1609
    [] z = 30 -> -2708

\* pow(REF_HEIGHT / zspeed, exponent) in 1e-6, exponent in 1e-3
PowRefOver(z, exponent) ==
  LET l == LogRefOver(z)
  IN  IF l = NaN \/ exponent = NaN THEN NaN
      ELSE IF l = PInf THEN PInf
      ELSE ExpMicro((exponent * l) \div 1000)

-----------------------------------------------------------------------------
(* daynum *)

begmonth == << 0, 0, 31, 59, 90, 120, 151, 181, 212, 243, 273, 304, 334 >>

daynumEveryFourth(year, month, day) ==
  IF year < 1 THEN -1
  ELSE LET leapyr == (year % 4) = 0
           dnum == begmonth[month + 1] + day
       IN  IF leapyr /\ month > 2 THEN dnum + 1 ELSE dnum
daynum(year, month, day) ==
  IF year < 1 THEN -1
  ELSE LET leapyr == ((year % 4) = 0 /\ (year % 100) # 0) \/ (year % 400) = 0
           dnum == begmonth[month + 1] + day
       IN  IF leapyr /\ month > 2 THEN dnum + 1 ELSE dnum

\* a direct call of daynum
Daynum_Call ==
  /\ pc = "daynum"
  /\ dnRet' = daynum(dnArgs.year, dnArgs.month, dnArgs.day)
  /\ pc' = "done"
  /\ UNCHANGED << entry, args, spa, spSteps, spRet, spOut, daynumber,
                  delta_days, spaRet, elev, soldist, cspRead, cspRet,
                  min_speed, dday, solar, cza, fdir, toasolar, normsolar,
                  daytime, stability_class, called, rad, resp, iter,
                  converged, T_prev, T_new, passes, hits, est_speed,
                  solar_adj, Tg, Tnwb, Tpsy, Twbg, ret, stabIn, sv, heat,
                  dnArgs >>
  /\ UNCHANGED << other, turn, switches >>

-----------------------------------------------------------------------------
(* solarposition *)

SpOutNames == { "ap_ra", "ap_dec", "altitude", "refraction", "azimuth", "distance" }

NoOutputs == [ n \in SpOutNames |-> UNSET ]

\* Earth-Sun distances (0.001 AU) the ephemeris yields over a year
Distances == { 983, 1017 }

\* lines 251-255: latitude and longitude are checked before anything else
LatLonBadNoLongitude(a) == a.latitude < -90 \/ a.latitude > 90
LatLonBad(a) ==
  a.latitude < -90 \/ a.latitude > 90 \/ a.longitude < -180 \/ a.longitude > 180

\* lines 260-314: date validation; TRUE when solarposition returns -1 here
DateBad(a) ==
  IF a.year # 0
  THEN \/ a.year < 1950 \/ a.year > 2049
       \/ IF a.month # 0
          THEN a.month < 1 \/ a.month > 12 \/ a.day < 0 \/ a.day > 33 * 86400
          ELSE a.day < 0 \/ a.day > 368 * 86400
  ELSE a.days_1900 < 18262 * 24 \/ a.days_1900 > 54788 * 24

\* lines 270, 277: daynumber from {year, month, day} or {year, 0, daynumber}
DayNumberOf(a) ==
  IF a.month # 0 THEN daynum(a.year, a.month, a.day \div 86400)
  ELSE a.day \div 86400

\* lines 282-286: whole days since 2000 January 0
DeltaDaysOf(year, dn) ==
  LET delta_years == year - 2000
      d == delta_years * 365 + CDiv(delta_years, 4) + dn
  IN  IF year > 2000 THEN d + 1 ELSE d

SP_CheckLatLon ==
  /\ pc = "sp_latlon"
  /\ spSteps' = Append(spSteps, "latlon")
  /\ IF LatLonBad(spa)
     THEN /\ spRet' = -1
          /\ pc' = "sp_ret"
     ELSE /\ spRet' = spRet
          /\ pc' = "sp_date"
  /\ UNCHANGED << entry, args, spa, spOut, daynumber, delta_days, spaRet, elev,
                  soldist, cspRead, cspRet, min_speed, dday, solar, cza, fdir,
                  toasolar, normsolar, daytime, stability_class, called, rad,
                  resp, iter, converged, T_prev, T_new, passes, hits, est_speed,
                  solar_adj, Tg, Tnwb, Tpsy, Twbg, ret >>
  /\ UNCHANGED << heat, sv, stabIn, dnArgs, dnRet >>
  /\ UNCHANGED << other, turn, switches >>

SP_CheckDate ==
  /\ pc = "sp_date"
  /\ spSteps' = Append(spSteps, "date")
  /\ IF DateBad(spa)
     THEN /\ spRet' = -1
          /\ pc' = "sp_ret"
          /\ UNCHANGED << daynumber, delta_days >>
     ELSE /\ spRet' = spRet
          /\ pc' = "sp_compute"
          /\ IF spa.year # 0
             THEN /\ daynumber' = DayNumberOf(spa)
                  /\ delta_days' = DeltaDaysOf(spa.year, DayNumberOf(spa))
             ELSE UNCHANGED << daynumber, delta_days >>
  /\ UNCHANGED << entry, args, spa, spOut, spaRet, elev,
                  soldist, cspRead, cspRet, min_speed, dday, solar, cza, fdir,
                  toasolar, normsolar, daytime, stability_class, called, rad,
                  resp, iter, converged, T_prev, T_new, passes, hits, est_speed,
                  solar_adj, Tg, Tnwb, Tpsy, Twbg, ret >>
  /\ UNCHANGED << heat, sv, stabIn, dnArgs, dnRet >>
  /\ UNCHANGED << other, turn, switches >>

\* lines 317-446: every output location is written, then 0 is returned
SP_Compute ==
  /\ pc = "sp_compute"
  /\ spSteps' = Append(spSteps, "compute")
  /\ \E alt \in Altitudes, dist \in Distances :
       spOut' = [ n \in SpOutNames |->
                    CASE n = "altitude" -> alt
                      [] n = "distance" -> dist
                      [] OTHER -> 0 ]
  /\ spRet' = 0
  /\ pc' = "sp_ret"
  /\ UNCHANGED << entry, args, spa, daynumber, delta_days, spaRet, elev,
                  soldist, cspRead, cspRet, min_speed, dday, solar, cza, fdir,
                  toasolar, normsolar, daytime, stability_class, called, rad,
                  resp, iter, converged, T_prev, T_new, passes, hits, est_speed,
                  solar_adj, Tg, Tnwb, Tpsy, Twbg, ret >>
  /\ UNCHANGED << heat, sv, stabIn, dnArgs, dnRet >>
  /\ UNCHANGED << other, turn, switches >>

\* return to the caller: calc_solar_parameters line 483 passes &elev and
\* &soldist, and ignores the value returned
SP_Return ==
  /\ pc = "sp_ret"
  /\ IF entry = "solarposition"
     THEN /\ pc' = "done"
          /\ UNCHANGED << elev, soldist >>
     ELSE /\ pc' = "csp_cza"
          /\ elev' = spOut["altitude"]
          /\ soldist' = spOut["distance"]
  /\ UNCHANGED << entry, args, spa, spSteps, spRet, spOut, daynumber,
                  delta_days, spaRet, cspRead, cspRet, min_speed, dday, solar,
                  cza, fdir, toasolar, normsolar, daytime, stability_class,
                  called, rad, resp, iter, converged, T_prev, T_new, passes,
                  hits, est_speed, solar_adj, Tg, Tnwb, Tpsy, Twbg, ret >>
  /\ UNCHANGED << heat, sv, stabIn, dnArgs, dnRet >>
  /\ UNCHANGED << other, turn, switches >>

-----------------------------------------------------------------------------
(* calc_solar_parameters *)

\* an automatic variable read before anything was stored in it holds whatever
\* the stack held: any double for elev and soldist, any float for cza
GarbageElev == Altitudes \cup { NaN }
GarbageDist == { NaN, 0, 1000, 2000 }
GarbageCza == { NaN, -500000, 0, 8727, 500000, 1500000 }

\* the values a read of elev (line 485), of *cza and of soldist (line 514)
\* can yield
ElevRead == IF elev = UNSET THEN GarbageElev ELSE { elev }
CzaRead == IF cza = UNSET THEN GarbageCza ELSE { cza }
SoldistRead == IF soldist = UNSET THEN GarbageDist ELSE { soldist }

\* line 514: SOLAR_CONST * max(0.,*cza) / (soldist*soldist), in 0.01 W/m2
ToaSolar(c, d) ==
  LET m == FMax(0, c)
  IN  IF m = NaN \/ d = NaN THEN NaN
      ELSE IF d = 0 THEN (IF m = 0 THEN NaN ELSE PInf)
      ELSE (((((SOLAR_CONST * (m \div 10)) \div 1000) * 1000) \div Abs(d)) * 1000)
             \div Abs(d)

\* *solar / toasolar in 1e-8 (values of 2 or more are kept as 2, values of
\* -20 or less as -20)
SolarRatio(s, t) ==
  IF s = NaN \/ t = NaN THEN NaN
  ELSE IF t = PInf THEN 0
  ELSE IF s >= 2 * t THEN 2 * NormScale
  ELSE IF s <= -20 * t THEN -20 * NormScale
  ELSE ((s * 1000) \div t) * (NormScale \div 1000)

\* (float) of a double on the normsolar grid
ToFloatNorm(x) == IF x = NORMSOLAR_MAX THEN NORMSOLAR_MAX_F ELSE x

\* line 528
NormSolar(s, t) == ToFloatNorm(FMin(SolarRatio(s, t), NORMSOLAR_MAX))

\* line 529: normsolar * toasolar, in 0.01 W/m2
AdjustedSolar(n, t) ==
  IF n = NaN \/ t = NaN THEN NaN
  ELSE IF t = PInf THEN (IF n = 0 THEN NaN ELSE PInf)
  ELSE RoundDiv((n \div 100000) * t, 1000)

\* line 535: exp( 3. - 1.34 * normsolar - 1.65 / normsolar ), in 1e-4, normsolar > 0
FdirRaw(n) ==
  LET nm == n \div 100000
  IN  IF nm = 0 THEN 0
      ELSE ExpMicro(3000 - ((1340 * nm) \div 1000) - (1650000 \div nm)) \div 100

\* line 536
FdirClampNoCap(f) == FMax(f, 0)
FdirClamp(f) == FMax(FMin(f, FDIR_MAX), 0)

\* lines 514-544 for the values c of *cza, d of soldist and s of *solar
PartitionNoCzaMin(c, d, s) ==
  LET t == ToaSolar(c, d)
  IN  IF FGt(t, 0)
      THEN LET n == NormSolar(s, t)
           IN  [ toasolar |-> t, normsolar |-> n, solar |-> AdjustedSolar(n, t),
                 fdir |-> IF FGt(n, 0) THEN FdirClamp(FdirRaw(n)) ELSE 0 ]
      ELSE [ toasolar |-> t, normsolar |-> UNSET, solar |-> 0, fdir |-> 0 ]
Partition(c, d, s) ==
  LET t0 == ToaSolar(c, d)
      t == IF FLt(c, CZA_MIN) THEN 0 ELSE t0
  IN  IF FGt(t, 0)
      THEN LET n == NormSolar(s, t)
           IN  [ toasolar |-> t, normsolar |-> n, solar |-> AdjustedSolar(n, t),
                 fdir |-> IF FGt(n, 0) THEN FdirClamp(FdirRaw(n)) ELSE 0 ]
      ELSE [ toasolar |-> t, normsolar |-> UNSET, solar |-> 0, fdir |-> 0 ]

\* line 482: the low-precision branch calls solarposition with days_1900 = 0.0
CSP_Call ==
  /\ pc = "csp"
  /\ called' = Append(called, "calc_solar_parameters")
  /\ IF args.use_spa = 0
     THEN /\ spa' = [ year |-> args.year, month |-> args.month, day |-> dday,
                      days_1900 |-> 0, latitude |-> args.lat,
                      longitude |-> args.lon ]
          /\ pc' = "sp_latlon"
     ELSE /\ spa' = spa
          /\ pc' = "spa_calc"
  /\ UNCHANGED << entry, args, spSteps, spRet, spOut, daynumber, delta_days,
                  spaRet, elev, soldist, cspRead, cspRet, min_speed, dday,
                  solar, cza, fdir, toasolar, normsolar, daytime,
                  stability_class, rad, resp, iter, converged, T_prev,
                  T_new, passes, hits, est_speed, solar_adj, Tg, Tnwb,
                  Tpsy, Twbg, ret >>
  /\ UNCHANGED << heat, sv, stabIn, dnArgs, dnRet >>
  /\ UNCHANGED << other, turn, switches >>

\* lines 505-511: spa_calculate either fills zenith and r and returns 0, or
\* returns an error code; only on 0 are *cza and soldist assigned
SPA_Calculate ==
  /\ pc = "spa_calc"
  /\ \/ \E alt \in Altitudes, dist \in Distances :
          /\ spaRet' = 0
          /\ cza' = CosZenith(alt)
          /\ soldist' = dist
          /\ cspRead' = cspRead \cup { "zenith", "r" }
     \/ /\ spaRet' = 1
        /\ UNCHANGED << cza, soldist, cspRead >>
  /\ pc' = "csp_toa"
  /\ UNCHANGED << entry, args, spa, spSteps, spRet, spOut, daynumber,
                  delta_days, elev, cspRet, min_speed, dday, solar, fdir,
                  toasolar, normsolar, daytime, stability_class, called,
                  rad, resp, iter, converged, T_prev, T_new, passes, hits,
                  est_speed, solar_adj, Tg, Tnwb, Tpsy, Twbg, ret >>
  /\ UNCHANGED << heat, sv, stabIn, dnArgs, dnRet >>
  /\ UNCHANGED << other, turn, switches >>

\* line 485: *cza = cos( (90.-elev)*DEG_RAD ), whatever solarposition returned
CSP_Cza ==
  /\ pc = "csp_cza"
  /\ \E e \in ElevRead :
       /\ elev' = e
       /\ cza' = CosZenith(e)
  /\ cspRead' = cspRead \cup { "elev" }
  /\ pc' = "csp_toa"
  /\ UNCHANGED << entry, args, spa, spSteps, spRet, spOut, daynumber,
                  delta_days, spaRet, soldist, cspRet, min_speed, dday, solar,
                  fdir, toasolar, normsolar, daytime, stability_class, called,
                  rad, resp, iter, converged, T_prev, T_new, passes, hits,
                  est_speed, solar_adj, Tg, Tnwb, Tpsy, Twbg, ret >>
  /\ UNCHANGED << heat, sv, stabIn, dnArgs, dnRet >>
  /\ UNCHANGED << other, turn, switches >>

\* lines 514-546: irradiance partition, then return(0)
CSP_Partition ==
  /\ pc = "csp_toa"
  /\ \E c \in CzaRead, d \in SoldistRead :
       LET p == Partition(c, d, solar)
       IN  /\ cza' = c
           /\ soldist' = d
           /\ toasolar' = p.toasolar
           /\ normsolar' = p.normsolar
           /\ solar' = p.solar
           /\ fdir' = p.fdir
  /\ cspRead' = cspRead \cup { "cza", "soldist" }
  /\ cspRet' = 0
  /\ pc' = "wind"
  /\ UNCHANGED << entry, args, spa, spSteps, spRet, spOut, daynumber,
                  delta_days, spaRet, elev, min_speed, dday, daytime,
                  stability_class, called, rad, resp, iter, converged,
                  T_prev, T_new, passes, hits,
                  est_speed, solar_adj, Tg, Tnwb, Tpsy, Twbg, ret >>
  /\ UNCHANGED << heat, sv, stabIn, dnArgs, dnRet >>
  /\ UNCHANGED << other, turn, switches >>

-----------------------------------------------------------------------------
(* stab_srdt and est_wind_speed *)

lsrdt == << << 1, 1, 2, 4, 0, 5, 6, 0 >>,
            << 1, 2, 3, 4, 0, 5, 6, 0 >>,
            << 2, 2, 3, 4, 0, 4, 4, 0 >>,
            << 3, 3, 4, 4, 0, 0, 0, 0 >>,
            << 3, 4, 4, 4, 0, 0, 0, 0 >>,
            << 0, 0, 0, 0, 0, 0, 0, 0 >> >>

\* lines 1131-1164: column j and row i of the lookup
StabColNightLast(dayt, sol, dt) ==
  IF dayt
  THEN IF FGe(sol, 92500) THEN 0
       ELSE IF FGe(sol, 67500) THEN 1
       ELSE IF FGe(sol, 17500) THEN 2
       ELSE 3
  ELSE IF FGe(dt, 0) THEN 7 ELSE 5
StabCol(dayt, sol, dt) ==
  IF dayt
  THEN IF FGe(sol, 92500) THEN 0
       ELSE IF FGe(sol, 67500) THEN 1
       ELSE IF FGe(sol, 17500) THEN 2
       ELSE 3
  ELSE IF FGe(dt, 0) THEN 6 ELSE 5

StabRow(dayt, spd) ==
  IF dayt
  THEN IF FGe(spd, 6 * SpeedScale) THEN 4
       ELSE IF FGe(spd, 5 * SpeedScale) THEN 3
       ELSE IF FGe(spd, 3 * SpeedScale) THEN 2
       ELSE IF FGe(spd, 2 * SpeedScale) THEN 1
       ELSE 0
  ELSE IF FGe(spd, (5 * SpeedScale) \div 2) THEN 2
       ELSE IF FGe(spd, 2 * SpeedScale) THEN 1
       ELSE 0

stab_srdt(dayt, spd, sol, dt) ==
  lsrdt[StabRow(dayt, spd) + 1][StabCol(dayt, sol, dt) + 1]

\* exponents in 1e-3
urban_exp == << 150, 150, 200, 250, 300, 300 >>
rural_exp == << 70, 70, 100, 150, 350, 550 >>

\* what an out-of-bounds read of the exponent arrays may yield
GarbageExp == { NaN, 0, 550 }

\* speed * pow( REF_HEIGHT/zspeed, exponent ), stored in a float
SpeedTimes(spd, p) ==
  IF spd = NaN \/ p = NaN THEN NaN
  ELSE IF p = PInf THEN (IF spd = 0 THEN NaN ELSE IF spd > 0 THEN PInf ELSE NaN)
  ELSE IF spd = PInf THEN PInf
  ELSE (spd \div 1000) * (p \div 1000) + (((spd % 1000) * (p \div 1000)) \div 1000)

\* lines 1096-1103 with the exponent already selected
EstWindSpeed(spd, z, exponent, minspd) ==
  FMax(SpeedTimes(spd, PowRefOver(z, exponent)), minspd)

\* (float) of a double on the speed grid
ToFloatSpeed(x) == IF x = MIN_SPEED THEN MIN_SPEED_F ELSE x

\* line 646
DirectSpeedNoFloor(spd, minspd) == spd
DirectSpeed(spd, minspd) == FMax(spd, minspd)

\* line 637: if ( zspeed != REF_HEIGHT )
NeedsEstimateAlways(z) == TRUE
NeedsEstimate(z) == z # REF_HEIGHT

\* lines 638-642: what stab_srdt(daytime, speed, solar, dT) receives
StabArgs ==
  [ daytime |-> FGt(cza, 0), speed |-> args.speed, solar |-> solar,
    dT |-> args.dT ]

\* lines 633-649 of calc_wbgt
Wind ==
  /\ pc = "wind"
  /\ solar_adj' = solar
  /\ IF NeedsEstimate(args.zspeed)
     THEN LET dayt == StabArgs.daytime
              sc == stab_srdt(dayt, StabArgs.speed, StabArgs.solar, StabArgs.dT)
          IN  /\ daytime' = dayt
              /\ stabIn' = StabArgs
              /\ stability_class' = sc
              /\ called' = called \o << "stab_srdt", "est_wind_speed" >>
              /\ \E ex \in (IF sc \in 1..6
                            THEN { IF args.urban # 0 THEN urban_exp[sc]
                                   ELSE rural_exp[sc] }
                            ELSE GarbageExp) :
                   est_speed' = EstWindSpeed(args.speed, args.zspeed, ex, min_speed)
     ELSE /\ est_speed' = DirectSpeed(args.speed, min_speed)
          /\ UNCHANGED << daytime, stability_class, called, stabIn >>
  /\ pc' = "tg_init"
  /\ UNCHANGED << entry, args, spa, spSteps, spRet, spOut, daynumber,
                  delta_days, spaRet, elev, soldist, cspRead, cspRet,
                  min_speed, dday, solar, cza, fdir, toasolar, normsolar,
                  rad, resp, iter, converged, T_prev, T_new, passes, hits,
                  Tg, Tnwb, Tpsy, Twbg, ret >>
  /\ UNCHANGED << heat, sv, dnArgs, dnRet >>
  /\ UNCHANGED << other, turn, switches >>

-----------------------------------------------------------------------------
(* Tglobe and Twb *)

\* The energy balance of one pass (lines 821-829 and 727-739) as a response
\* to the previous estimate p: not a number, infinite, or linear about a
\* fixed point c with slope s
Response(r, p) ==
  CASE r.kind = "nan" -> NaN
    [] r.kind = "inf" -> IF IsFinite(p) THEN PInf ELSE NaN
    [] r.kind = "lin" -> IF IsFinite(p) THEN r.c + r.s * (p - r.c) ELSE NaN

\* line 825: pow(x, 0.25) is not a number for x < 0, and never negative
TglobeNew(r, p) ==
  LET x == Response(r, p)
  IN  IF IsFinite(x) /\ x < 0 THEN NaN ELSE x

\* float addition
FAdd(a, b) ==
  IF a = NaN \/ b = NaN THEN NaN
  ELSE IF a = PInf \/ b = PInf THEN PInf
  ELSE a + b

\* tan(acos(cza)) in 1e-3, cza in 1e-6 (acos is not a number outside [-1, 1])
TanZenith(c) ==
  CASE c = NaN -> NaN
    [] c # NaN /\ (c > CzaScale \/ c < -CzaScale) -> NaN
    [] c = 1000000 -> 0
    [] c = 979715 -> 204
    [] c = 799999 -> 750
    [] c = 500000 -> 1732
    [] c = 10472 -> 95488
    [] c = 8727 -> 114585
    [] c = 0 -> -22877000
    [] c = -8727 -> -114585
    [] c = -500000 -> -1732
    [] c = -1000000 -> 0

\* lines 731-732: (1.-fdir)*(1.+0.25*D_WICK/L_WICK)
\*   + fdir*((tan(sza)/PI)+0.25*D_WICK/L_WICK) + ALB_SFC, in 1e-3
WickGeometry(fd, cz) ==
  LET t == TanZenith(cz)
      direct == IF fd = 0 THEN 0 ELSE fd * ((t * 100) \div 314 + 69)
  IN  ((FdirScale - fd) * 1069 + direct) \div FdirScale + 450

\* lines 729-733: Fatm over the convective coefficient, for the solver
\* parameters v and the previous estimate p, in 0.001 K
HeatTerm(v, p) ==
  IF ~IsFinite(p) \/ p < 0 THEN NaN
  ELSE IF v.solar = NaN \/ v.fdir = NaN \/ TanZenith(v.cza) = NaN THEN NaN
  ELSE IF v.solar = PInf THEN PInf
  ELSE 800 + ((v.solar \div 10) * WickGeometry(v.fdir, v.cza)) \div 1000

\* lines 727-734: heat is recomputed only if (rad == 1)
HeatOfPassAnyRad(r, h, v, p) == HeatTerm(v, p)
HeatOfPass(r, h, v, p) == IF r = 1 THEN HeatTerm(v, p) ELSE h

\* line 739
TwbNew(r, p, h) == FAdd(Response(r, p), h)

\* lines 740, 830: fabs(T_new - T_prev) < CONVERGENCE
Test(n, p) == IsFinite(n) /\ IsFinite(p) /\ Abs(n - p) < CONVERGENCE

\* lines 741, 831: 0.9*T_prev + 0.1*T_new
DampReplace(p, n) == n
Damp(p, n) ==
  IF p = NaN \/ n = NaN THEN NaN
  ELSE IF p = PInf \/ n = PInf THEN PInf
  ELSE RoundDiv(9 * p + n, 10)

\* lines 743, 834: while (!converged && iter < MAX_ITER)
AgainNoCap(conv, it) == ~conv
Again(conv, it) == ~conv /\ it < MAX_ITER

\* lines 745-748, 836-839
SolverReturn(conv, n) == IF conv THEN n - KELVIN ELSE SENTINEL

\* kelvin temperature and dew point of the meteorological case, 0.001 K
\* (line 658 tk = Tair + 273.15; lines 720-722 Tdew)
Tk(a) == a.Tair + KELVIN

\* the responses the inputs of the case produce in the three solves
GlobeResponses(a) ==
  CASE a.met = "reference" ->
         { [ kind |-> "lin", c |-> Tk(a) + 14630, s |-> -3, td |-> UNSET ] }
    [] a.met = "extreme" ->
         { [ kind |-> "nan", c |-> 0, s |-> 0, td |-> UNSET ] }
    [] a.met = "varied" ->
         { [ kind |-> "nan", c |-> 0, s |-> 0, td |-> UNSET ],
           [ kind |-> "inf", c |-> 0, s |-> 0, td |-> UNSET ],
           [ kind |-> "lin", c |-> Tk(a), s |-> 1, td |-> UNSET ],
           [ kind |-> "lin", c |-> Tk(a) + 3200, s |-> 0, td |-> UNSET ],
           [ kind |-> "lin", c |-> Tk(a) + 3500, s |-> 0, td |-> UNSET ],
           [ kind |-> "lin", c |-> Tk(a) + 1000, s |-> -19, td |-> UNSET ] }

\* line 650 (speed = *est_speed) and lines 664-666: the arguments speed,
\* solar, fdir, cza of Tglobe and of both Twb calls
SolverArgsRawSpeed ==
  [ speed |-> args.speed, solar |-> solar, fdir |-> fdir, cza |-> cza ]
SolverArgs ==
  [ speed |-> est_speed, solar |-> solar, fdir |-> fdir, cza |-> cza ]

\* the evaporative part of line 739 (all of it but heat): it depends on
\* Tair, rh, Pair and speed only
WetResponses(a) ==
  CASE a.met = "reference" ->
         { [ kind |-> "lin", c |-> Tk(a) - 8730, s |-> -3, td |-> Tk(a) - 11800 ] }
    [] a.met = "extreme" ->
         { [ kind |-> "lin", c |-> -9725850, s |-> -9, td |-> -12159030 ] }
    [] a.met = "varied" ->
         LET td == Tk(a) - 22000
         IN  { [ kind |-> "nan", c |-> 0, s |-> 0, td |-> td ],
               [ kind |-> "lin", c |-> td + 12000, s |-> -3, td |-> td ],
               [ kind |-> "inf", c |-> 0, s |-> 0, td |-> td ],
               [ kind |-> "lin", c |-> td, s |-> 1, td |-> td ],
               [ kind |-> "lin", c |-> td + 3200, s |-> 0, td |-> td ],
               [ kind |-> "lin", c |-> td + 3500, s |-> 0, td |-> td ],
               [ kind |-> "lin", c |-> td + 1000, s |-> -19, td |-> td ] }

\* lines 811-818
Tglobe_Init ==
  /\ pc = "tg_init"
  /\ called' = Append(called, "Tglobe")
  /\ resp' \in GlobeResponses(args)
  /\ T_prev' = Tk(args)
  /\ T_new' = UNSET
  /\ converged' = FALSE
  /\ iter' = 0
  /\ passes' = 0
  /\ hits' = 0
  /\ sv' = SolverArgs
  /\ pc' = "tg_loop"
  /\ UNCHANGED << entry, args, spa, spSteps, spRet, spOut, daynumber,
                  delta_days, spaRet, elev, soldist, cspRead, cspRet,
                  min_speed, dday, solar, cza, fdir, toasolar, normsolar,
                  daytime, stability_class, rad, est_speed, solar_adj, Tg,
                  Tnwb, Tpsy, Twbg, ret >>
  /\ UNCHANGED << heat, stabIn, dnArgs, dnRet >>
  /\ UNCHANGED << other, turn, switches >>

\* lines 819-834: one pass of the do-while body and its exit test
Tglobe_Pass ==
  /\ pc = "tg_loop"
  /\ iter' = iter + 1
  /\ passes' = passes + 1
  /\ T_new' = TglobeNew(resp, T_prev)
  /\ converged' = (converged \/ Test(T_new', T_prev))
  /\ hits' = IF Test(T_new', T_prev) THEN hits + 1 ELSE hits
  /\ T_prev' = Damp(T_prev, T_new')
  /\ pc' = IF Again(converged', iter') THEN "tg_loop" ELSE "tg_ret"
  /\ UNCHANGED << entry, args, spa, spSteps, spRet, spOut, daynumber,
                  delta_days, spaRet, elev, soldist, cspRead, cspRet,
                  min_speed, dday, solar, cza, fdir, toasolar, normsolar,
                  daytime, stability_class, called, rad, resp, est_speed,
                  solar_adj, Tg, Tnwb, Tpsy, Twbg, ret >>
  /\ UNCHANGED << heat, sv, stabIn, dnArgs, dnRet >>
  /\ UNCHANGED << other, turn, switches >>

\* lines 836-839, and the assignment of line 664
Tglobe_Return ==
  /\ pc = "tg_ret"
  /\ Tg' = SolverReturn(converged, T_new)
  /\ rad' = 1
  /\ pc' = "twb_init"
  /\ UNCHANGED << entry, args, spa, spSteps, spRet, spOut, daynumber,
                  delta_days, spaRet, elev, soldist, cspRead, cspRet,
                  min_speed, dday, solar, cza, fdir, toasolar, normsolar,
                  daytime, stability_class, called, resp, iter, converged,
                  T_prev, T_new, passes, hits, est_speed, solar_adj, Tnwb,
                  Tpsy, Twbg, ret >>
  /\ UNCHANGED << heat, sv, stabIn, dnArgs, dnRet >>
  /\ UNCHANGED << other, turn, switches >>

\* lines 712-724: heat = 0.0, the first guess is the dew point
Twb_Init ==
  /\ pc = "twb_init"
  /\ called' = Append(called, IF rad = 1 THEN "Twb(rad=1)" ELSE "Twb(rad=0)")
  /\ \E r \in WetResponses(args) :
       /\ resp' = r
       /\ T_prev' = r.td
  /\ sv' = SolverArgs
  /\ heat' = 0
  /\ T_new' = UNSET
  /\ converged' = FALSE
  /\ iter' = 0
  /\ passes' = 0
  /\ hits' = 0
  /\ pc' = "twb_loop"
  /\ UNCHANGED << entry, args, spa, spSteps, spRet, spOut, daynumber,
                  delta_days, spaRet, elev, soldist, cspRead, cspRet,
                  min_speed, dday, solar, cza, fdir, toasolar, normsolar,
                  daytime, stability_class, rad, est_speed, solar_adj, Tg,
                  Tnwb, Tpsy, Twbg, ret >>
  /\ UNCHANGED << stabIn, dnArgs, dnRet >>
  /\ UNCHANGED << other, turn, switches >>

\* lines 725-743
Twb_Pass ==
  /\ pc = "twb_loop"
  /\ iter' = iter + 1
  /\ passes' = passes + 1
  /\ heat' = HeatOfPass(rad, heat, sv, T_prev)
  /\ T_new' = TwbNew(resp, T_prev, heat')
  /\ converged' = (converged \/ Test(T_new', T_prev))
  /\ hits' = IF Test(T_new', T_prev) THEN hits + 1 ELSE hits
  /\ T_prev' = Damp(T_prev, T_new')
  /\ pc' = IF Again(converged', iter') THEN "twb_loop" ELSE "twb_ret"
  /\ UNCHANGED << entry, args, spa, spSteps, spRet, spOut, daynumber,
                  delta_days, spaRet, elev, soldist, cspRead, cspRet,
                  min_speed, dday, solar, cza, fdir, toasolar, normsolar,
                  daytime, stability_class, called, rad, resp, est_speed,
                  solar_adj, Tg, Tnwb, Tpsy, Twbg, ret >>
  /\ UNCHANGED << sv, stabIn, dnArgs, dnRet >>
  /\ UNCHANGED << other, turn, switches >>

\* lines 745-748, and the assignments of lines 665 and 666
Twb_Return ==
  /\ pc = "twb_ret"
  /\ IF rad = 1
     THEN /\ Tnwb' = SolverReturn(converged, T_new)
          /\ rad' = 0
          /\ pc' = "twb_init"
          /\ Tpsy' = Tpsy
     ELSE /\ Tpsy' = SolverReturn(converged, T_new)
          /\ pc' = "finish"
          /\ UNCHANGED << Tnwb, rad >>
  /\ UNCHANGED << entry, args, spa, spSteps, spRet, spOut, daynumber,
                  delta_days, spaRet, elev, soldist, cspRead, cspRet,
                  min_speed, dday, solar, cza, fdir, toasolar, normsolar,
                  daytime, stability_class, called, resp, iter, converged,
                  T_prev, T_new, passes, hits, est_speed, solar_adj, Tg,
                  Twbg, ret >>
  /\ UNCHANGED << heat, sv, stabIn, dnArgs, dnRet >>
  /\ UNCHANGED << other, turn, switches >>

-----------------------------------------------------------------------------
(* calc_wbgt *)

\* lines 625-626: dday = day + hour_gmt / 24., in seconds
DdayOf(a) ==
  a.day * 86400 + (a.hour - a.gmt) * 3600 + a.minute * 60 - 30 * a.avg + a.second

\* lines 619-626, up to the call of calc_solar_parameters
CalcWbgt_Entry ==
  /\ pc = "entry"
  /\ min_speed' = ToFloatSpeed(FMax(args.min_speed, MIN_SPEED))
  /\ dday' = DdayOf(args)
  /\ solar' = args.solar
  /\ pc' = "csp"
  /\ UNCHANGED << entry, args, spa, spSteps, spRet, spOut, daynumber,
                  delta_days, spaRet, elev, soldist, cspRead, cspRet, cza,
                  fdir, toasolar, normsolar, daytime, stability_class, called,
                  rad, resp, iter, converged, T_prev, T_new, passes, hits,
                  est_speed, solar_adj, Tg, Tnwb, Tpsy, Twbg, ret >>
  /\ UNCHANGED << heat, sv, stabIn, dnArgs, dnRet >>
  /\ UNCHANGED << other, turn, switches >>

\* line 667: 0.1 * Tair + 0.2 * (*Tg) + 0.7 * (*Tnwb)
WeightedSumSwapped(ta, tg, tn) == RoundDiv(ta + 7 * tg + 2 * tn, 10)
WeightedSum(ta, tg, tn) == RoundDiv(ta + 2 * tg + 7 * tn, 10)

\* line 675
FailedAny(tg, tn, tp) == tg = SENTINEL \/ tn = SENTINEL \/ tp = SENTINEL
FailedGlobeOnly(tg, tn, tp) == tg = SENTINEL
Failed(tg, tn, tp) == tg = SENTINEL \/ tn = SENTINEL

\* lines 667-680
CalcWbgt_Finish ==
  /\ pc = "finish"
  /\ IF Failed(Tg, Tnwb, Tpsy)
     THEN /\ Twbg' = SENTINEL
          /\ ret' = -1
     ELSE /\ Twbg' = WeightedSum(args.Tair, Tg, Tnwb)
          /\ ret' = 0
  /\ pc' = "done"
  /\ UNCHANGED << entry, args, spa, spSteps, spRet, spOut, daynumber,
                  delta_days, spaRet, elev, soldist, cspRead, cspRet,
                  min_speed, dday, solar, cza, fdir, toasolar, normsolar,
                  daytime, stability_class, called, rad, resp, iter,
                  converged, T_prev, T_new, passes, hits, est_speed,
                  solar_adj, Tg, Tnwb, Tpsy >>
  /\ UNCHANGED << heat, sv, stabIn, dnArgs, dnRet >>
  /\ UNCHANGED << other, turn, switches >>

-----------------------------------------------------------------------------
(* Inputs *)

BaseArgs ==
  [ year |-> 2005, month |-> 6, day |-> 21, hour |-> 12, minute |-> 0,
    second |-> 0, gmt |-> -6, avg |-> 1, lat |-> 35, lon |-> -98,
    solar |-> 80000, Tair |-> 33000, speed |-> 2 * SpeedScale, zspeed |-> 2,
    dT |-> 0, urban |-> 0, use_spa |-> 0, min_speed |-> 0,
    met |-> "reference" ]

Times == { << 12, -6, 1 >>, << 0, 1, 0 >>, << 0, 0, 0 >> }
Places == { << 35, -98 >>, << 91, -98 >>, << 35, 181 >> }

GeoCases ==
  { [ BaseArgs EXCEPT !.year = y, !.month = m, !.day = d, !.hour = t[1],
                      !.gmt = t[2], !.avg = t[3], !.lat = p[1], !.lon = p[2] ] :
      y \in { 0, 2004, 2050 }, m \in { 0, 6, 13 }, d \in { 21, 33, 368 },
      t \in Times, p \in Places }

SpaCases == { [ BaseArgs EXCEPT !.use_spa = 1 ] }

SolarCases ==
  { [ BaseArgs EXCEPT !.solar = s ] :
      s \in { NaN, -10000, 0, 100, 80000, 200000 } }

Speeds == { NaN, 0, SpeedScale \div 10, MIN_SPEED_F, 2 * SpeedScale,
            (5 * SpeedScale) \div 2, 5 * SpeedScale, 6 * SpeedScale }
MinSpeeds == { NaN, -SpeedScale, 0, MIN_SPEED_F, SpeedScale \div 2, 3 * SpeedScale }

WindCases ==
  { [ BaseArgs EXCEPT !.speed = v, !.min_speed = m, !.zspeed = z ] :
      v \in Speeds, m \in MinSpeeds, z \in { 2, 10 } }
  \cup
  { [ BaseArgs EXCEPT !.speed = v, !.zspeed = z ] :
      v \in Speeds, z \in { -1, 0, 1 } }
  \cup
  { [ BaseArgs EXCEPT !.speed = v, !.solar = s, !.dT = t, !.urban = u,
                      !.zspeed = 10 ] :
      v \in Speeds \ { NaN, MIN_SPEED_F }, s \in { 10000, 30000, 80000, 100000 },
      t \in { -1000, 0 }, u \in { 0, 1 } }
  \cup
  { [ BaseArgs EXCEPT !.speed = v, !.dT = t, !.urban = u ] :
      v \in { 0, 5 * SpeedScale }, t \in { -1000, 0 }, u \in { 0, 1 } }

MetCases ==
  { [ BaseArgs EXCEPT !.met = "varied", !.Tair = -11190, !.lat = l ] :
      l \in { 35, 91 } }
  \cup
  { [ BaseArgs EXCEPT !.met = "extreme", !.Tair = 11899600 ] }

ArgCases == GeoCases \cup SpaCases \cup SolarCases \cup WindCases \cup MetCases

NoDnArgs == [ year |-> 0, month |-> 0, day |-> 0 ]

\* direct calls of daynum: common, leap and centurial years, and years < 1
DnArgCases ==
  [ year : { -1, 0, 1, 4, 100, 400, 1900, 1999, 2000, 2004, 2100 },
    month : 1 .. 12,
    day : { 1, 28, 29, 30, 31 } ]

NoSpArgs ==
  [ year |-> 0, month |-> 0, day |-> 0, days_1900 |-> 0, latitude |-> 0,
    longitude |-> 0 ]

\* direct calls of solarposition: {year, month, day}, {year, 0, daynumber}
\* and days_1900
SpArgCases ==
  { [ year |-> y, month |-> m, day |-> d, days_1900 |-> 0, latitude |-> p[1],
      longitude |-> p[2] ] :
      y \in { 1949, 1950, 2004, 2049, 2050 }, m \in { -1, 0, 2, 3, 12, 13 },
      d \in { -1, 0, 21 * 86400 + 43200, 33 * 86400, 33 * 86400 + 1,
              368 * 86400, 368 * 86400 + 1 },
      p \in { -91, 35, 90, 91 } \X { -181, -98, 180, 181 } }
  \cup
  { [ year |-> 0, month |-> 0, day |-> 0, days_1900 |-> h, latitude |-> p[1],
      longitude |-> p[2] ] :
      h \in { 0, 18262 * 24 - 1, 18262 * 24, 36525 * 24 + 12, 54788 * 24,
              54788 * 24 + 1 },
      p \in { -91, 35, 90, 91 } \X { -181, -98, 180, 181 } }

-----------------------------------------------------------------------------
(* The state machine *)

\* a single call: no other call is parked
NoOther == [ pc |-> "none" ]

\* the locals of every function at the start of a call: nothing stored yet
FreshLocals ==
  /\ spSteps = << >>
  /\ spRet = UNSET
  /\ spOut = NoOutputs
  /\ daynumber = UNSET
  /\ delta_days = UNSET
  /\ spaRet = UNSET
  /\ elev = UNSET
  /\ soldist = UNSET
  /\ cspRead = { }
  /\ cspRet = UNSET
  /\ min_speed = UNSET
  /\ dday = UNSET
  /\ solar = UNSET
  /\ cza = UNSET
  /\ fdir = UNSET
  /\ toasolar = UNSET
  /\ normsolar = UNSET
  /\ daytime = FALSE
  /\ stability_class = UNSET
  /\ called = << >>
  /\ rad = UNSET
  /\ resp = [ kind |-> "nan", c |-> 0, s |-> 0, td |-> UNSET ]
  /\ iter = 0
  /\ converged = FALSE
  /\ T_prev = UNSET
  /\ T_new = UNSET
  /\ passes = 0
  /\ hits = 0
  /\ est_speed = UNSET
  /\ solar_adj = UNSET
  /\ Tg = UNSET
  /\ Tnwb = UNSET
  /\ Tpsy = UNSET
  /\ Twbg = UNSET
  /\ ret = UNSET
  /\ stabIn = UNSET
  /\ sv = UNSET
  /\ heat = UNSET
  /\ dnRet = UNSET

Init ==
  /\ entry \in { "calc_wbgt", "solarposition", "daynum" }
  /\ CASE entry = "calc_wbgt" ->
            /\ args \in ArgCases
            /\ spa = NoSpArgs
            /\ dnArgs = NoDnArgs
            /\ pc = "entry"
       [] entry = "solarposition" ->
            /\ args = BaseArgs
            /\ spa \in SpArgCases
            /\ dnArgs = NoDnArgs
            /\ pc = "sp_latlon"
       [] entry = "daynum" ->
            /\ args = BaseArgs
            /\ spa = NoSpArgs
            /\ dnArgs \in DnArgCases
            /\ pc = "daynum"
  /\ FreshLocals
  /\ other = NoOther
  /\ turn = 1
  /\ switches = 0

Next ==
  \/ Daynum_Call
  \/ CalcWbgt_Entry
  \/ CSP_Call
  \/ SP_CheckLatLon
  \/ SP_CheckDate
  \/ SP_Compute
  \/ SP_Return
  \/ SPA_Calculate
  \/ CSP_Cza
  \/ CSP_Partition
  \/ Wind
  \/ Tglobe_Init
  \/ Tglobe_Pass
  \/ Tglobe_Return
  \/ Twb_Init
  \/ Twb_Pass
  \/ Twb_Return
  \/ CalcWbgt_Finish

Spec == Init /\ [][Next]_vars

-----------------------------------------------------------------------------
(* Two concurrent calls of calc_wbgt *)

\* context switches allowed in one behaviour
MaxSwitches == 3

\* inside a solver loop a context switch is taken before this many passes
MaxSwitchPass == 1

\* the variables a call of calc_wbgt writes that have static storage
\* duration: none. No variable is defined at file scope; the statics of Twb
\* (a), h_sphere_in_air and h_cylinder_in_air (a, b, c), diffusivity
\* (Pcrit_air, Pcrit_h2o, Tcrit_air, Tcrit_h2o, a, b), viscosity (sigma,
\* eps_kappa), daynum (begmonth) and stab_srdt (lsrdt) are initialised and
\* never assigned. Every variable written is a parameter or an automatic
\* variable of the running activation, or one of its output locations.
WrittenStaticsCza == { "cza" }
WrittenStatics == { }

\* the parameters, automatic variables and output locations of one call
Frame ==
  [ entry |-> entry, pc |-> pc, args |-> args, spa |-> spa,
    spSteps |-> spSteps, spRet |-> spRet, spOut |-> spOut,
    daynumber |-> daynumber, delta_days |-> delta_days, spaRet |-> spaRet,
    elev |-> elev, soldist |-> soldist, cspRead |-> cspRead,
    cspRet |-> cspRet, min_speed |-> min_speed, dday |-> dday,
    solar |-> solar, cza |-> cza, fdir |-> fdir, toasolar |-> toasolar,
    normsolar |-> normsolar, daytime |-> daytime,
    stability_class |-> stability_class, called |-> called, rad |-> rad,
    resp |-> resp, iter |-> iter, converged |-> converged, T_prev |-> T_prev,
    T_new |-> T_new, passes |-> passes, hits |-> hits,
    est_speed |-> est_speed, solar_adj |-> solar_adj, Tg |-> Tg,
    Tnwb |-> Tnwb, Tpsy |-> Tpsy, Twbg |-> Twbg, ret |-> ret,
    stabIn |-> stabIn, sv |-> sv, heat |-> heat, dnArgs |-> dnArgs,
    dnRet |-> dnRet ]

\* what the resumed call finds in a variable: its own value if the variable
\* belongs to its activation, the value left there if the variable is static
Resume(name, left, own) == IF name \in WrittenStatics THEN left ELSE own

\* the scheduler suspends the running call and resumes the other one
Switch ==
  /\ other.pc \notin { "none", "done" }
  /\ switches < MaxSwitches
  /\ pc \in { "tg_loop", "twb_loop" } => iter <= MaxSwitchPass
  /\ switches' = switches + 1
  /\ turn' = 3 - turn
  /\ other' = Frame
  /\ entry' = Resume("entry", entry, other.entry)
  /\ pc' = Resume("pc", pc, other.pc)
  /\ args' = Resume("args", args, other.args)
  /\ spa' = Resume("spa", spa, other.spa)
  /\ spSteps' = Resume("spSteps", spSteps, other.spSteps)
  /\ spRet' = Resume("spRet", spRet, other.spRet)
  /\ spOut' = Resume("spOut", spOut, other.spOut)
  /\ daynumber' = Resume("daynumber", daynumber, other.daynumber)
  /\ delta_days' = Resume("delta_days", delta_days, other.delta_days)
  /\ spaRet' = Resume("spaRet", spaRet, other.spaRet)
  /\ elev' = Resume("elev", elev, other.elev)
  /\ soldist' = Resume("soldist", soldist, other.soldist)
  /\ cspRead' = Resume("cspRead", cspRead, other.cspRead)
  /\ cspRet' = Resume("cspRet", cspRet, other.cspRet)
  /\ min_speed' = Resume("min_speed", min_speed, other.min_speed)
  /\ dday' = Resume("dday", dday, other.dday)
  /\ solar' = Resume("solar", solar, other.solar)
  /\ cza' = Resume("cza", cza, other.cza)
  /\ fdir' = Resume("fdir", fdir, other.fdir)
  /\ toasolar' = Resume("toasolar", toasolar, other.toasolar)
  /\ normsolar' = Resume("normsolar", normsolar, other.normsolar)
  /\ daytime' = Resume("daytime", daytime, other.daytime)
  /\ stability_class' = Resume("stability_class", stability_class, other.stability_class)
  /\ called' = Resume("called", called, other.called)
  /\ rad' = Resume("rad", rad, other.rad)
  /\ resp' = Resume("resp", resp, other.resp)
  /\ iter' = Resume("iter", iter, other.iter)
  /\ converged' = Resume("converged", converged, other.converged)
  /\ T_prev' = Resume("T_prev", T_prev, other.T_prev)
  /\ T_new' = Resume("T_new", T_new, other.T_new)
  /\ passes' = Resume("passes", passes, other.passes)
  /\ hits' = Resume("hits", hits, other.hits)
  /\ est_speed' = Resume("est_speed", est_speed, other.est_speed)
  /\ solar_adj' = Resume("solar_adj", solar_adj, other.solar_adj)
  /\ Tg' = Resume("Tg", Tg, other.Tg)
  /\ Tnwb' = Resume("Tnwb", Tnwb, other.Tnwb)
  /\ Tpsy' = Resume("Tpsy", Tpsy, other.Tpsy)
  /\ Twbg' = Resume("Twbg", Twbg, other.Twbg)
  /\ ret' = Resume("ret", ret, other.ret)
  /\ stabIn' = Resume("stabIn", stabIn, other.stabIn)
  /\ sv' = Resume("sv", sv, other.sv)
  /\ heat' = Resume("heat", heat, other.heat)
  /\ dnArgs' = Resume("dnArgs", dnArgs, other.dnArgs)
  /\ dnRet' = Resume("dnRet", dnRet, other.dnRet)

\* the argument lists of the two calls: the first at noon, with either solar
\* position routine; the second at night, measured at 10 m
ConcFirstArgs == { BaseArgs, [ BaseArgs EXCEPT !.use_spa = 1 ] }
ConcSecondArgs ==
  { [ BaseArgs EXCEPT !.hour = 0, !.gmt = 1, !.zspeed = 10, !.dT = -1000,
                      !.solar = 0 ] }

InitConc ==
  /\ entry = "calc_wbgt"
  /\ args \in ConcFirstArgs
  /\ spa = NoSpArgs
  /\ dnArgs = NoDnArgs
  /\ pc = "entry"
  /\ FreshLocals
  /\ \E b \in ConcSecondArgs : other = [ Frame EXCEPT !.args = b ]
  /\ turn = 1
  /\ switches = 0

NextConc ==
  \/ Switch
  \/ CalcWbgt_Entry
  \/ CSP_Call
  \/ SP_CheckLatLon
  \/ SP_CheckDate
  \/ SP_Compute
  \/ SP_Return
  \/ SPA_Calculate
  \/ CSP_Cza
  \/ CSP_Partition
  \/ Wind
  \/ Tglobe_Init
  \/ Tglobe_Pass
  \/ Tglobe_Return
  \/ Twb_Init
  \/ Twb_Pass
  \/ Twb_Return
  \/ CalcWbgt_Finish

SpecConc == InitConc /\ [][NextConc]_vars



-----------------------------------------------------------------------------
(* Properties *)

Returned == entry = "calc_wbgt" /\ pc = "done"
SolarStepFailed == entry = "calc_wbgt" /\ (spRet = -1 \/ spaRet = 1)
AtSolverReturn == pc \in { "tg_ret", "twb_ret" }

\* C1: when calc_wbgt has returned, it returned -1 with Twbg = -9999 if the
\* globe solve or the natural wet-bulb solve returned -9999, and otherwise it
\* returned 0 with Twbg = 0.1 Tair + 0.2 Tg + 0.7 Tnwb.
C1_ReturnValue ==
  Returned =>
    IF Tg = SENTINEL \/ Tnwb = SENTINEL
    THEN ret = -1 /\ Twbg = SENTINEL
    ELSE ret = 0 /\ 10 * Twbg \in (args.Tair + 2 * Tg + 7 * Tnwb - 5)
                                    .. (args.Tair + 2 * Tg + 7 * Tnwb + 5)

\* the natural wet-bulb solve alone failed
C1_Witness ==
  Returned /\ Tg # SENTINEL /\ Tnwb = SENTINEL /\ ret = -1 /\ Twbg = SENTINEL

\* C2: in every solve the counter starts at 0 and counts the passes one by
\* one, never exceeds MAX_ITER, the loop is re-entered only while the flag is
\* clear and the counter is below MAX_ITER (so MAX_ITER - iter bounds the
\* passes that remain), and the solver leaves the loop after at least one pass
\* with the flag set or the counter at MAX_ITER, also when the estimate is not
\* finite.
C2_LoopBounded ==
  /\ iter \in 0 .. MAX_ITER
  /\ passes = iter
  /\ pc \in { "tg_loop", "twb_loop" } => ~converged /\ iter < MAX_ITER
  /\ AtSolverReturn => passes >= 1 /\ (converged \/ iter = MAX_ITER)
  /\ AtSolverReturn /\ hits > 0 => converged

\* a solve whose estimate is not a number stops at the cap
C2_Witness ==
  pc = "tg_ret" /\ T_new = NaN /\ iter = MAX_ITER /\ passes = MAX_ITER /\ ~converged

\* C3 as the specification states it: a solver returns -9999 exactly when no
\* pass satisfied the convergence test.
C3_SentinelIffNoPassConverged ==
  AtSolverReturn => (SolverReturn(converged, T_new) = SENTINEL <=> hits = 0)

C5_LowSunZeroes ==
  cspRet = 0 /\ FLt(cza, CZA_MIN) => solar = 0 /\ fdir = 0

\* the sun is above the horizon but below CZA_MIN, with 800 W/m2 measured
C5_Witness ==
  /\ cspRet = 0
  /\ cza > 0
  /\ cza < CZA_MIN
  /\ args.solar = 80000
  /\ solar = 0
  /\ fdir = 0

\* C6: once calc_solar_parameters has returned, fdir has been assigned, and if
\* the solar-position step succeeded then cza is in [-1, 1] and fdir is in
\* [0, 0.9].
C6_Ranges ==
  cspRet = 0 =>
    /\ fdir # UNSET
    /\ (entry = "calc_wbgt" /\ (spRet = 0 \/ spaRet = 0)) =>
         /\ cza \in (-CzaScale) .. CzaScale
         /\ fdir \in 0 .. FDIR_MAX

\* the direct fraction reaches its cap
C6_Witness == cspRet = 0 /\ spRet = 0 /\ fdir = FDIR_MAX /\ normsolar = NORMSOLAR_MAX_F

C8_OutputsNotUsedOnError == SolarStepFailed => cspRead = { }

\* C9 as the specification states it: after a failed solar-position step
\* calc_solar_parameters and calc_wbgt do not return 0.
C9_FailureReturned ==
  SolarStepFailed =>
    /\ cspRet # UNSET => cspRet # 0
    /\ Returned => ret # 0

\* C10 as the specification states it: -9999 from any of the three solves
\* makes calc_wbgt return -1 with Twbg = -9999.
C10_AnySolverFailure ==
  Returned /\ (Tg = SENTINEL \/ Tnwb = SENTINEL \/ Tpsy = SENTINEL)
    => ret = -1 /\ Twbg = SENTINEL

\* C10, amended: -9999 from the globe or the natural wet-bulb solve makes
\* calc_wbgt return -1 with Twbg = -9999; -9999 from the psychrometric solve
\* alone is reported only in Tpsy, calc_wbgt returns 0 and Twbg is not the
\* sentinel.
C10_GlobeOrNaturalFailure ==
  /\ Returned /\ (Tg = SENTINEL \/ Tnwb = SENTINEL)
       => ret = -1 /\ Twbg = SENTINEL
  /\ Returned /\ Tg # SENTINEL /\ Tnwb # SENTINEL /\ Tpsy = SENTINEL
       => ret = 0 /\ Twbg # SENTINEL

\* only the psychrometric solve failed
C10_Witness ==
  Returned /\ Tg # SENTINEL /\ Tnwb # SENTINEL /\ Tpsy = SENTINEL /\ ret = 0

\* C11 as the specification states it: what calc_wbgt writes to its outputs
\* is determined by its arguments, on every path.  Checked where
\* calc_solar_parameters reads its locals: every value the location read can
\* hold yields the same cza, and the same adjusted irradiance (the output
\* solar_adj) and fdir.
C11_OutputsDetermined ==
  /\ pc = "csp_cza" =>
       \A e1, e2 \in ElevRead : CosZenith(e1) = CosZenith(e2)
  /\ pc = "csp_toa" =>
       \A c1, c2 \in CzaRead, d1, d2 \in SoldistRead :
         /\ Partition(c1, d1, solar).solar = Partition(c2, d2, solar).solar
         /\ Partition(c1, d1, solar).fdir = Partition(c2, d2, solar).fdir

\* C12: when calc_wbgt has returned 0, Twbg is 0.1 Tair + 0.2 Tg + 0.7 Tnwb
\* of the values written in the same call (to the grid's rounding), and
\* Tnwb < Tair < Tg implies Tnwb < Twbg < Tg.
C12_WeightedSum ==
  Returned /\ ret = 0 =>
    /\ 10 * Twbg >= args.Tair + 2 * Tg + 7 * Tnwb - 5
    /\ 10 * Twbg <= args.Tair + 2 * Tg + 7 * Tnwb + 5
    /\ (Tnwb < args.Tair /\ args.Tair < Tg) => (Tnwb < Twbg /\ Twbg < Tg)

\* the reference afternoon: wet bulb below, globe above the air temperature
C12_Witness ==
  /\ Returned
  /\ ret = 0
  /\ Tnwb < args.Tair
  /\ args.Tair < Tg
  /\ Tnwb < Twbg
  /\ Twbg < Tg

\* C13 as the specification states it: the normalized irradiance lies in
\* [0, 0.85] (0.85 as the float the program stores) and the adjusted
\* irradiance between 0 and 0.85 times the top-of-atmosphere irradiance, for
\* every measured irradiance (stated for calls whose solar-position step
\* succeeded).
C13_NormSolarRange ==
  normsolar # UNSET /\ (spRet = 0 \/ spaRet = 0) =>
    /\ normsolar >= 0
    /\ normsolar <= NORMSOLAR_MAX_F
    /\ FGe(solar, 0)
    /\ IsFinite(toasolar) /\ IsFinite(solar) => 100 * solar <= 85 * toasolar + 100

\* The Gregorian calendar, as the header comments of daynum and of
\* solarposition describe it
IsLeapYear(y) == (y % 4 = 0) /\ ((y % 100 # 0) \/ (y % 400 = 0))

DaysInMonth(y, m) ==
  IF m = 2 THEN (IF IsLeapYear(y) THEN 29 ELSE 28)
  ELSE IF m \in { 4, 6, 9, 11 } THEN 30
  ELSE 31

DaysInYear(y) == IF IsLeapYear(y) THEN 366 ELSE 365

RECURSIVE DaysBeforeMonth(_, _)
DaysBeforeMonth(y, m) ==
  IF m <= 1 THEN 0 ELSE DaysBeforeMonth(y, m - 1) + DaysInMonth(y, m - 1)

\* whole days from 2000 January 0 to January 0 of year y
RECURSIVE DaysToYear(_)
DaysToYear(y) ==
  IF y = 2000 THEN 0
  ELSE IF y > 2000 THEN DaysToYear(y - 1) + DaysInYear(y - 1)
  ELSE DaysToYear(y + 1) - DaysInYear(y)

\* C14: daynum returns -1 for a year below 1; for a year >= 1, a month in
\* 1..12 and a day of that month it returns the day of the year: the days of
\* the months before plus the day, so 1 for January 1 and 365 (366 in leap
\* years) for December 31.
C14_DayOfYear ==
  dnRet # UNSET =>
    /\ dnArgs.year < 1 => dnRet = -1
    /\ (/\ dnArgs.year >= 1
        /\ dnArgs.month \in 1 .. 12
        /\ dnArgs.day \in 1 .. DaysInMonth(dnArgs.year, dnArgs.month))
         => /\ dnRet = DaysBeforeMonth(dnArgs.year, dnArgs.month) + dnArgs.day
            /\ (dnArgs.month = 1 /\ dnArgs.day = 1) => dnRet = 1
            /\ (dnArgs.month = 12 /\ dnArgs.day = 31)
                 => dnRet = DaysInYear(dnArgs.year)

\* December 31 of a centurial year that is not a leap year
C14_Witness ==
  dnArgs = [ year |-> 1900, month |-> 12, day |-> 31 ] /\ dnRet = 365

\* C15 as the specification states it: for a date {year, month, day} or
\* {year, 0, daynumber} with year in 1950..2049, delta_days is the number of
\* whole days from 2000 January 0 to the date (days_1900 - 36524 of the same
\* date).
C15_DeltaDaysExact ==
  delta_days # UNSET =>
    delta_days = DaysToYear(spa.year)
                   + (IF spa.month # 0 THEN DaysBeforeMonth(spa.year, spa.month)
                      ELSE 0)
                   + spa.day \div 86400

\* arguments on both sides of every threshold of stab_srdt (lines 1131-1163)
StabSpeeds ==
  { NaN, PInf, 0 - SpeedScale, 0, 2 * SpeedScale - 1, 2 * SpeedScale,
    (5 * SpeedScale) \div 2, 3 * SpeedScale, 5 * SpeedScale, 6 * SpeedScale }
StabSolars == { NaN, PInf, -10000, 0, 17499, 17500, 67500, 92499, 92500 }
StabDTs == { NaN, PInf, -1000, 0, 1000 }

\* row, column and class of stab_srdt for each of these arguments
StabSrdtResults ==
  { << StabRow(d, q[1]), StabCol(d, q[2], q[3]), stab_srdt(d, q[1], q[2], q[3]) >> :
      d \in BOOLEAN, q \in StabSpeeds \X StabSolars \X StabDTs }

\* C16: whatever stab_srdt receives, its row index is inside 0..5 and its
\* column index inside 0..7 of the 6x8 table, the class it returns is one of
\* 1..6, and est_wind_speed therefore indexes its exponent arrays at
\* stability_class - 1 in 0..5.
C16_ClassInRange ==
  stability_class # UNSET =>
    /\ StabRow(stabIn.daytime, stabIn.speed) \in 0 .. 5
    /\ StabCol(stabIn.daytime, stabIn.solar, stabIn.dT) \in 0 .. 7
    /\ stability_class
         = stab_srdt(stabIn.daytime, stabIn.speed, stabIn.solar, stabIn.dT)
    /\ stability_class \in 1 .. 6
    /\ stability_class - 1 \in 0 .. 5
    /\ stability_class \in DOMAIN urban_exp
    /\ stability_class \in DOMAIN rural_exp
    /\ StabSrdtResults \subseteq (0 .. 5) \X (0 .. 7) \X (1 .. 6)

\* a night-time call that returns the last class, and est_wind_speed ran
C16_Witness ==
  /\ stability_class # UNSET
  /\ ~stabIn.daytime
  /\ stability_class = 6
  /\ est_speed # UNSET

\* C17: in each pass of Tglobe and Twb the test compares the new estimate
\* with the previous estimate as it was before damping, T_prev then becomes
\* 0.9*T_prev + 0.1*T_new whether or not the pass converged, and on
\* convergence the solver returns the undamped new estimate minus 273.15,
\* which is within 0.02 of the estimate it was computed from.
C17_TestThenDamp ==
  [][
    /\ pc \in { "tg_loop", "twb_loop" } =>
         LET n == T_new'
             p == T_prev
             close == IsFinite(n) /\ IsFinite(p) /\ Abs(n - p) < CONVERGENCE
         IN  /\ ~converged
             /\ converged' = close
             /\ (IsFinite(n) /\ IsFinite(p))
                  => Abs(10 * T_prev' - (9 * p + n)) <= 5
             /\ (n = NaN \/ p = NaN) => T_prev' = NaN
             /\ pc' \in { "tg_ret", "twb_ret" } => (converged' \/ iter' = MAX_ITER)
    /\ (pc = "tg_ret" /\ converged) => Tg' = T_new - KELVIN
    /\ (pc = "twb_ret" /\ converged /\ rad = 1) => Tnwb' = T_new - KELVIN
    /\ (pc = "twb_ret" /\ converged /\ rad = 0) => Tpsy' = T_new - KELVIN
  ]_vars

\* a solve that converged on a later pass: the estimate it returns differs
\* from the damped T_prev left behind by the converging pass
C17_Witness ==
  /\ pc = "tg_ret"
  /\ converged
  /\ passes > 1
  /\ IsFinite(T_prev) /\ IsFinite(T_new)
  /\ T_prev # T_new

C19_OrderAndArguments ==
  LET estimate == IF args.zspeed # REF_HEIGHT
                  THEN << "stab_srdt", "est_wind_speed" >> ELSE << >>
      order == << "calc_solar_parameters" >> \o estimate
                 \o << "Tglobe", "Twb(rad=1)", "Twb(rad=0)" >>
  IN  entry = "calc_wbgt" =>
        /\ Len(called) <= Len(order)
        /\ called = SubSeq(order, 1, Len(called))
        /\ Returned => called = order
        /\ stability_class # UNSET =>
             /\ cspRet = 0
             /\ stabIn.solar = solar
             /\ stabIn.solar = solar_adj
             /\ stabIn.daytime = FGt(cza, 0)
             /\ stabIn.speed = args.speed
        /\ (\E i \in DOMAIN called : called[i] = "Tglobe") =>
             /\ est_speed # UNSET
             /\ sv.speed = est_speed
             /\ sv.solar = solar_adj
             /\ sv.solar = solar
             /\ sv.fdir = fdir
             /\ sv.cza = cza

\* a finished run in which the irradiance was adjusted and the wind
\* extrapolated: the last solve received neither measurement
C19_Witness ==
  /\ Returned
  /\ Len(called) = 6
  /\ solar_adj # args.solar
  /\ est_speed # args.speed
  /\ sv.solar # args.solar
  /\ sv.speed # args.speed

\* the value Twb returns when heat stays at 0.0: the loop of lines 725-748
\* run on the evaporative response r alone, from estimate p after it passes
RECURSIVE TwbWithoutHeat(_, _, _)
TwbWithoutHeat(r, p, it) ==
  LET n == Response(r, p)
      conv == IsFinite(n) /\ IsFinite(p) /\ Abs(n - p) < CONVERGENCE
  IN  IF conv THEN n - KELVIN
      ELSE IF it + 1 >= MAX_ITER THEN SENTINEL
      ELSE TwbWithoutHeat(r, Damp(p, n), it + 1)

\* C20: with rad = 0 the heat term of Twb is zero in every iteration, each
\* new estimate is the evaporative balance alone, and the value returned
\* (Tpsy) is the one that balance gives from the dew point: solar, fdir and
\* cza do not enter it.
C20_NoHeatWithoutRadiation ==
  [][
    /\ (pc' \in { "twb_loop", "twb_ret" } /\ rad' = 0) => heat' = 0
    /\ (pc = "twb_loop" /\ rad = 0) => T_new' = Response(resp, T_prev)
    /\ (pc = "twb_ret" /\ rad = 0) => Tpsy' = TwbWithoutHeat(resp, resp.td, 0)
  ]_vars

\* a finished run in sunshine: the natural wet bulb was heated above the
\* psychrometric one, whose solve ended with heat still zero
C20_Witness ==
  /\ Returned
  /\ rad = 0
  /\ heat = 0
  /\ FGt(sv.solar, 0)
  /\ FGt(sv.cza, 0)
  /\ Tpsy # SENTINEL
  /\ Tnwb # SENTINEL
  /\ Tnwb > Tpsy

\* C21: two calls of calc_wbgt interleaved at any of their steps share no
\* mutable state. A step of the running call changes nothing of the
\* suspended call; a context switch resumes the suspended call with exactly
\* the parameters, locals and output locations it was suspended with; and
\* each call that has returned left in its six outputs and its return value
\* what the call computes from its own arguments when run alone.
C21_NoSharedState ==
  [][
    /\ turn' = turn => other' = other
    /\ turn' # turn => (Frame' = other /\ other' = Frame)
    /\ \A f \in { Frame', other' } :
         f.pc = "done" =>
           /\ f.min_speed = ToFloatSpeed(FMax(f.args.min_speed, MIN_SPEED))
           /\ f.solar = Partition(f.cza, f.soldist, f.args.solar).solar
           /\ f.fdir = Partition(f.cza, f.soldist, f.args.solar).fdir
           /\ f.solar_adj = f.solar
           /\ IF f.args.zspeed = REF_HEIGHT
              THEN f.est_speed = FMax(f.args.speed, f.min_speed)
              ELSE /\ f.stability_class
                        = stab_srdt(FGt(f.cza, 0), f.args.speed, f.solar_adj,
                                    f.args.dT)
                   /\ f.stability_class \in 1 .. 6
                   /\ f.est_speed
                        = EstWindSpeed(f.args.speed, f.args.zspeed,
                                       IF f.args.urban # 0
                                       THEN urban_exp[f.stability_class]
                                       ELSE rural_exp[f.stability_class],
                                       f.min_speed)
           /\ f.sv = [ speed |-> f.est_speed, solar |-> f.solar_adj,
                       fdir |-> f.fdir, cza |-> f.cza ]
           /\ f.Tpsy = TwbWithoutHeat(f.resp, f.resp.td, 0)
           /\ IF Failed(f.Tg, f.Tnwb, f.Tpsy)
              THEN f.Twbg = SENTINEL /\ f.ret = -1
              ELSE f.Twbg = WeightedSum(f.args.Tair, f.Tg, f.Tnwb) /\ f.ret = 0
  ]_vars

\* both calls have returned 0 after each was suspended and resumed, the one
\* in sunshine and the other at night with an extrapolated wind
C21_Witness ==
  /\ switches = MaxSwitches
  /\ pc = "done"
  /\ other.pc = "done"
  /\ ret = 0
  /\ other.ret = 0
  /\ FGt(other.cza, 0)
  /\ ~FGt(cza, 0)
  /\ stability_class \in 1 .. 6
  /\ other.solar_adj # solar_adj
  /\ other.Twbg # Twbg

====
